---- MODULE Spec2Model ----
(***************************************************************************)
(* bevy_step_loader: the STEP loader's pipeline (src/src/lib.rs).          *)
(*                                                                         *)
(*   load -> read_to_end -> triangulate_step_file                          *)
(*        -> triangulate_with_occt | triangulate_with_foxtrot              *)
(*        -> Mesh::new / insert_attribute / insert_indices /               *)
(*           compute_normals -> optimise_mesh (feature "meshopt")          *)
(*   StepAsset::clone, StepAsset::simplify_mesh                            *)
(*                                                                         *)
(* The STEP parsers, the tessellation kernels, bevy's Mesh and meshopt are *)
(* libraries outside the repository: they are modelled through the         *)
(* interface the code uses, their outputs drawn from bounded sets.         *)
(***************************************************************************)
EXTENDS Integers, Sequences, FiniteSets, TLC

VARIABLES build, fs, calls, assets, heap, last

vars == <<build, fs, calls, assets, heap, last>>

(***************************************************************************)
(* Bounds                                                                  *)
(***************************************************************************)
\* concurrent load calls
NumCalls == 2
\* longest byte buffer a reader delivers
MaxLen == 2
\* most vertices a backend returns
MaxVerts == 2
\* longest raw index array a backend returns
MaxIdx == 4
\* most triangles of a mesh handed to the transforms
MaxTris == 1

Calls == 1..NumCalls

SeqsUpTo(S, n) == UNION {[1..k -> S] : k \in 0..n}

\* byte buffers: sequences of bytes
Bytes == {0, 1}
Buffers == SeqsUpTo(Bytes, MaxLen)

(***************************************************************************)
(* bevy_mesh::Mesh, as far as the code uses it                             *)
(***************************************************************************)
NoAttribute == [kind |-> "None", data |-> <<>>]
Float32x3(data) == [kind |-> "Float32x3", data |-> data]
NoIndices == [kind |-> "None", data |-> <<>>]
IndicesU32(data) == [kind |-> "U32", data |-> data]
IndicesU16(data) == [kind |-> "U16", data |-> data]

\* Mesh::new(TriangleList, RenderAssetUsages::all()): no attribute, no indices
MeshNew == [position |-> NoAttribute, normal |-> NoAttribute, indices |-> NoIndices]

insert_attribute_position(mesh, vertices) ==
    [mesh EXCEPT !.position = Float32x3(vertices)]

insert_indices(mesh, indices) == [mesh EXCEPT !.indices = indices]

\* the complete triangles of an index array (chunks_exact(3): a remainder of
\* one or two indices is skipped)
Faces(s) == [t \in 1..(Len(s) \div 3) |-> <<s[3*t - 2], s[3*t - 1], s[3*t]>>]

FlatMap(tris) == [i \in 1..(3 * Len(tris)) |-> tris[((i - 1) \div 3) + 1][((i - 1) % 3) + 1]]

\* compute_normals on an indexed mesh reads positions[a], positions[b],
\* positions[c] of every complete triangle: an index past the positions is an
\* out-of-bounds slice access, a panic
ComputeNormalsPanics(mesh) ==
    \E t \in 1..Len(Faces(mesh.indices.data)) :
        \E k \in 1..3 : Faces(mesh.indices.data)[t][k] >= Len(mesh.position.data)

\* one normal per position: the normalized sum of the face normals of the
\* triangles incident to the vertex, here the set of those faces (empty: the
\* zero vector). Vertex v (0-based) is position v + 1.
compute_normals(mesh) ==
    LET faces == Faces(mesh.indices.data)
        n == Len(mesh.position.data)
    IN [mesh EXCEPT !.normal =
          Float32x3([v \in 1..n |->
              {faces[t] : t \in {u \in 1..Len(faces) :
                                   \E k \in 1..3 : faces[u][k] = v - 1}}])]

(***************************************************************************)
(* meshopt::optimise_vertex_cache_in_place (library): a reordering of the  *)
(* triangles, each possibly rotated.                                       *)
(***************************************************************************)
Perms(n) == {p \in [1..n -> 1..n] : \A i, j \in 1..n : p[i] = p[j] => i = j}

Rot(tri, r) == [k \in 1..3 |-> tri[((k - 1 + r) % 3) + 1]]

WellFormed(indices, nverts) ==
    /\ Len(indices) % 3 = 0
    /\ \A i \in 1..Len(indices) : indices[i] < nverts

VertexCacheOrders(indices, nverts) ==
    IF WellFormed(indices, nverts)
    THEN LET tris == Faces(indices)
             T == Len(tris)
         IN {[ok |-> TRUE, data |-> FlatMap([t \in 1..T |-> Rot(tris[p[t]], r[t])])] :
                 p \in Perms(T), r \in [1..T -> 0..2]}
    \* the C library asserts index_count % 3 == 0 and index < vertex_count:
    \* the call aborts, or (assertions compiled out) runs on with the buffer
    ELSE {[ok |-> FALSE, data |-> indices], [ok |-> TRUE, data |-> indices]}

\* an optimiser that builds a new mesh of the positions and the reordered
\* indices, and so loses the normals
optimise_mesh_rebuilt(mesh) ==
    IF mesh.position.kind # "Float32x3" \/ mesh.indices.kind = "None"
    THEN {[res |-> "ParseError", mesh |-> mesh]}
    ELSE {IF o.ok
          THEN [res |-> "Ok",
                mesh |-> insert_indices(
                             insert_attribute_position(MeshNew, mesh.position.data),
                             IndicesU32(o.data))]
          ELSE [res |-> "Panic", mesh |-> mesh] :
              o \in VertexCacheOrders(mesh.indices.data, Len(mesh.position.data))}

\* an optimiser that takes a mesh with nothing to reorder for a failure
optimise_mesh_nonempty_only(mesh) ==
    IF mesh.position.kind # "Float32x3" \/ mesh.indices.kind = "None"
    THEN {[res |-> "ParseError", mesh |-> mesh]}
    ELSE IF Len(mesh.indices.data) = 0 \/ Len(mesh.position.data) = 0
    THEN {[res |-> "ParseError", mesh |-> mesh]}
    ELSE {IF o.ok
          THEN [res |-> "Ok", mesh |-> [mesh EXCEPT !.indices = IndicesU32(o.data)]]
          ELSE [res |-> "Panic", mesh |-> mesh] :
              o \in VertexCacheOrders(mesh.indices.data, Len(mesh.position.data))}

(***************************************************************************)
(* optimise_mesh (feature "meshopt"): the outcomes, each the Result and    *)
(* the mesh as the call leaves it.                                         *)
(***************************************************************************)
optimise_mesh(mesh) ==
    IF mesh.position.kind = "None"
    THEN {[res |-> "ParseError", mesh |-> mesh]}
    ELSE IF mesh.position.kind # "Float32x3"
    THEN {[res |-> "ParseError", mesh |-> mesh]}
    ELSE IF mesh.indices.kind = "None"
    THEN {[res |-> "ParseError", mesh |-> mesh]}
    ELSE LET positions == mesh.position.data
             \* U32: to_vec(); U16: each index widened `as u32`, the value kept
             indices == [i \in 1..Len(mesh.indices.data) |-> mesh.indices.data[i]]
         IN IF Len(indices) # 0 /\ Len(positions) # 0
            THEN {IF o.ok
                  THEN [res |-> "Ok", mesh |-> [mesh EXCEPT !.indices = IndicesU32(o.data)]]
                  ELSE [res |-> "Panic", mesh |-> mesh] :
                      o \in VertexCacheOrders(indices, Len(positions))}
            ELSE {[res |-> "Ok", mesh |-> mesh]}

(***************************************************************************)
(* The backends (libraries). A STEP exchange file opens with its           *)
(* ISO-10303-21 header: a buffer is taken as STEP content when it is not   *)
(* empty and its first byte is the header byte, 1.                         *)
(***************************************************************************)
IsValidStep(content) == Len(content) > 0 /\ content[1] = 1

\* f64 coordinates `as f32`: exact below 2^24, above it (up to 2^25) rounded
\* to the nearest even number, a tie going to the multiple of 4
F32Exact == 16777216

AsF32(x) ==
    IF x < F32Exact THEN x
    ELSE IF x % 2 = 0 THEN x
    ELSE IF (x + 1) % 4 = 0 THEN x + 1 ELSE x - 1

\* usize `as u32` keeps the low 32 bits: the value itself for every index below
\* 2^32, and the indices here are (2^32 is past the integers TLC computes with)
AsU32(i) == i

\* what a kernel can return: nv vertices (vertex i at coordinate 2^24 + i) and
\* an index array of its element type, nothing in the code constraining either
RawGeometry(maxVerts, maxIdx) ==
    UNION {{[verts |-> [i \in 1..nv |-> F32Exact + i], indices |-> s] :
               s \in SeqsUpTo(0..nv, maxIdx)} : nv \in 0..maxVerts}

RawGeoms == RawGeometry(MaxVerts, MaxIdx)

\* the one geometry of the runs that are about the calls' interleaving
UnitTriangle == {g \in RawGeometry(1, 3) : g.indices = <<0, 0, 0>>}

\* foxtrot's triangulate4 returns triangles (triples of vertex indices), so
\* only whole triangles
FoxtrotMeshes(G) ==
    {[verts |-> g.verts, triangles |-> Faces(g.indices)] :
        g \in {h \in G : Len(h.indices) % 3 = 0}}

EmptyFoxtrotMesh == [verts |-> <<>>, triangles |-> <<>>]

(***************************************************************************)
(* Results of a call                                                       *)
(***************************************************************************)
NoResult == [kind |-> "None", mesh |-> MeshNew]
Err(kind) == [kind |-> kind, mesh |-> MeshNew]
Ok(mesh) == [kind |-> "Ok", mesh |-> mesh]
\* the call unwinds: no Result is returned
Panicked == [kind |-> "Panic", mesh |-> MeshNew]

ErrKinds == {"IoError", "OcctError", "FoxtrotError", "ParseError"}

\* lines 213-228 and 252-267: the mesh is assembled from the raw arrays as they
\* are, normals are computed, and with feature "meshopt" the indices reordered
AssembleMesh(vertices, indices, meshopt) ==
    LET m1 == insert_attribute_position(MeshNew, vertices)
        m2 == insert_indices(m1, IndicesU32(indices))
    IN IF ComputeNormalsPanics(m2)
       THEN {Panicked}
       ELSE IF meshopt
       THEN {IF o.res = "Ok" THEN Ok(o.mesh)
             ELSE IF o.res = "Panic" THEN Panicked
             ELSE Err(o.res) : o \in optimise_mesh(compute_normals(m2))}
       ELSE {Ok(compute_normals(m2))}

\* triangulate_with_occt from line 203 on: Mesher::mesh, then the assembly
occt_mesh_results(g, meshopt) ==
    AssembleMesh([i \in 1..Len(g.verts) |-> AsF32(g.verts[i])],
                 [i \in 1..Len(g.indices) |-> AsU32(g.indices[i])],
                 meshopt)

\* triangulate_with_foxtrot from line 240 on
foxtrot_mesh_results(tm, meshopt) ==
    AssembleMesh([i \in 1..Len(tm.verts) |-> AsF32(tm.verts[i])],
                 FlatMap(tm.triangles),
                 meshopt)

\* strip_flatten, parse and triangulate4 return values, never a Result: on
\* content the parser cannot read the call panics or goes on with nothing parsed
foxtrot_triangulate(content, G) ==
    IF IsValidStep(content)
    THEN [panic : {FALSE}, mesh : FoxtrotMeshes(G)]
    ELSE {[panic |-> TRUE, mesh |-> EmptyFoxtrotMesh],
          [panic |-> FALSE, mesh |-> EmptyFoxtrotMesh]}

(***************************************************************************)
(* The scratch file of triangulate_with_occt                               *)
(***************************************************************************)
\* std::env::temp_dir().join("temp_step_file.step")
TempPath(c) == "temp_step_file.step"

ScratchPaths == {TempPath(c) : c \in Calls}

NoFile == [exists |-> FALSE, data |-> <<>>]
File(data) == [exists |-> TRUE, data |-> data]

NotRead == [read |-> FALSE, data |-> <<>>]
Read(data) == [read |-> TRUE, data |-> data]

NoRaw == [set |-> FALSE, verts |-> <<>>, indices |-> <<>>]
Raw(verts, indices) == [set |-> TRUE, verts |-> verts, indices |-> indices]

\* a stage of load, as the call ran it: "Running" until the stage returns
Stage(name, res) == [stage |-> name, res |-> res]

\* a call of load: where it is, the bytes it read, whether it has called
\* triangulate_step_file, its scratch path, what the backend read, the raw
\* arrays the backend returned, what the call returned, and the stages it has
\* run, in the order it entered them
IdleCall == [pc |-> "idle", step_data |-> <<>>, triangulated |-> FALSE,
             temp_path |-> "", kernel_input |-> NotRead, raw |-> NoRaw,
             result |-> NoResult, stages |-> <<>>]

Builds == [opencascade : BOOLEAN, meshopt : BOOLEAN]

(***************************************************************************)
(* StepLoader::load, one action per step between two points where another  *)
(* call can run                                                            *)
(***************************************************************************)
AssetVarsUnchanged == UNCHANGED <<assets, heap, last>>

\* load is entered: bytes = Vec::new()
Load(c) ==
    /\ calls[c].pc = "idle"
    /\ calls' = [calls EXCEPT ![c].pc = "read_to_end"]
    /\ UNCHANGED <<build, fs>>
    /\ AssetVarsUnchanged

\* a load that reads again when the read has failed
read_to_end_retried(call) ==
    [call EXCEPT !.stages = Append(@, Stage("read_to_end", "IoError")),
                 !.pc = "read_to_end"]

\* line 168, `?` on the Err of read_to_end: load returns it as IoError (lines
\* 37-41) and runs nothing more
read_to_end_failed(call) ==
    [call EXCEPT !.stages = Append(@, Stage("read_to_end", "IoError")),
                 !.result = Err("IoError"),
                 !.pc = "done"]

\* line 168 on Ok, line 170: triangulate_step_file(&bytes) is entered
read_to_end_succeeded(call, bytes, backend) ==
    [call EXCEPT !.stages = @ \o <<Stage("read_to_end", "Ok"),
                                   Stage("triangulate_step_file", "Running")>>,
                 !.step_data = bytes,
                 !.triangulated = TRUE,
                 !.pc = backend]

\* lines 170-172: `?` hands the Err of triangulate_step_file on as it is, an
\* Ok mesh is wrapped: Ok(StepAsset { mesh }); a panic unwinds through load
triangulate_returned(call, r) ==
    [call EXCEPT !.stages[Len(call.stages)] = Stage("triangulate_step_file", r.kind),
                 !.result = IF r.kind = "Ok" THEN Ok(r.mesh) ELSE r,
                 !.pc = "done"]

\* triangulate_step_file: the backend of this build
triangulate_step_file(c) ==
    IF build.opencascade THEN "occt_write" ELSE "foxtrot"

\* reader.read_to_end(&mut bytes).await? : the bytes, or an IoError returned
ReadToEnd(c, B) ==
    /\ calls[c].pc = "read_to_end"
    /\ \/ \E b \in B :
            calls' = [calls EXCEPT ![c] =
                         read_to_end_succeeded(@, b, triangulate_step_file(c))]
       \/ calls' = [calls EXCEPT ![c] = read_to_end_failed(@)]
    /\ UNCHANGED <<build, fs>>
    /\ AssetVarsUnchanged

\* std::fs::write(&temp_path, step_data)? : the file holds the bytes, or an
\* IoError is returned
OcctWrite(c) ==
    /\ calls[c].pc = "occt_write"
    /\ \/ /\ fs' = [fs EXCEPT ![TempPath(c)] = File(calls[c].step_data)]
          /\ calls' = [calls EXCEPT ![c].temp_path = TempPath(c),
                                    ![c].pc = "occt_read_step"]
       \/ /\ calls' = [calls EXCEPT ![c] =
                            triangulate_returned([@ EXCEPT !.temp_path = TempPath(c)],
                                                 Err("IoError"))]
          /\ UNCHANGED fs
    /\ UNCHANGED build
    /\ AssetVarsUnchanged

\* Shape::read_step(temp_path).map_err(OcctError)? : the kernel reads what the
\* file holds now
OcctReadStep(c) ==
    /\ calls[c].pc = "occt_read_step"
    /\ LET f == fs[calls[c].temp_path]
       IN IF f.exists /\ IsValidStep(f.data)
          THEN calls' = [calls EXCEPT ![c].kernel_input = Read(f.data),
                                      ![c].pc = "occt_mesh"]
          ELSE calls' = [calls EXCEPT ![c] =
                            triangulate_returned([@ EXCEPT !.kernel_input = Read(f.data)],
                                                 Err("OcctError"))]
    /\ UNCHANGED <<build, fs>>
    /\ AssetVarsUnchanged

\* Mesher::new(&shape).mesh() and the assembly, to the return of load
OcctMesh(c, G) ==
    /\ calls[c].pc = "occt_mesh"
    /\ \E g \in G : \E r \in occt_mesh_results(g, build.meshopt) :
          calls' = [calls EXCEPT ![c] =
                       triangulate_returned([@ EXCEPT !.raw = Raw(g.verts, g.indices)], r)]
    /\ UNCHANGED <<build, fs>>
    /\ AssetVarsUnchanged

\* triangulate_with_foxtrot, in memory, to the return of load
Foxtrot(c, G) ==
    /\ calls[c].pc = "foxtrot"
    /\ \E o \in foxtrot_triangulate(calls[c].step_data, G) :
          /\ IF o.panic
             THEN calls' = [calls EXCEPT ![c] =
                               triangulate_returned(
                                   [@ EXCEPT !.kernel_input = Read(calls[c].step_data)],
                                   Panicked)]
             ELSE \E r \in foxtrot_mesh_results(o.mesh, build.meshopt) :
                    calls' = [calls EXCEPT ![c] =
                                 triangulate_returned(
                                     [@ EXCEPT !.kernel_input = Read(calls[c].step_data),
                                               !.raw = Raw(o.mesh.verts,
                                                           FlatMap(o.mesh.triangles))],
                                     r)]
    /\ UNCHANGED <<build, fs>>
    /\ AssetVarsUnchanged

LoadStep(c, B, G) ==
    \/ Load(c)
    \/ ReadToEnd(c, B)
    \/ OcctWrite(c)
    \/ OcctReadStep(c)
    \/ OcctMesh(c, G)
    \/ Foxtrot(c, G)

\* the assets of check_step_loaded: step_asset, borrowed from the asset store,
\* and simplified_asset, the caller's own mutable clone
Slots == {"step_asset", "simplified_asset"}

\* an asset slot: the storage its mesh lives in (0: the slot is empty) and the
\* slot it was cloned from ("": none)
NoAsset == [handle |-> 0, from |-> ""]
NoAssets == [s \in Slots |-> NoAsset]

NoOp == [op |-> "none", slot |-> "", res |-> "None", before |-> MeshNew, target |-> 0,
         ratio |-> 0]

InitLoad ==
    /\ build \in Builds
    /\ fs = [p \in ScratchPaths |-> NoFile]
    /\ calls = [c \in Calls |-> IdleCall]
    /\ assets = NoAssets
    /\ heap = <<>>
    /\ last = NoOp

\* concurrent calls
Init == InitLoad

Next == \E c \in Calls : LoadStep(c, Buffers, UnitTriangle)

Spec == Init /\ [][Next]_vars

\* one call over every geometry a backend can return
MainCall == CHOOSE c \in Calls : TRUE

NextSeq == LoadStep(MainCall, Buffers, RawGeoms)

SpecSeq == InitLoad /\ [][NextSeq]_vars

(***************************************************************************)
(* StepAsset::simplify_mesh (feature "meshopt")                            *)
(***************************************************************************)
\* most vertices of a mesh handed to the transforms
MaxAssetVerts == 3
\* ratios are quarters, exact in f32: 0/4 .. MaxQuarters/4 (above 4: beyond 1.0)
MaxQuarters == 5

Ratios == 0..MaxQuarters
\* error_threshold: none allowed, or some
Thresholds == {0, 1}

\* the target rounded to the nearest integer, a half rounded up
TargetIndexCountRounded(n, quarters) == (2 * n * quarters + 4) \div 8

\* (original_indices.len() as f32 * ratio) as usize: the product of a small
\* count and a quarter is exact in f32, the cast drops the fraction
TargetIndexCount(n, quarters) == (n * quarters) \div 4

\* meshopt::VertexDataAdapter::new(bytes, vertex_size, 0): an error when the
\* byte length is no multiple of the stride (12) or the offset is past it
VertexAdapterFails(nfloats) == (4 * nfloats) % (3 * 4) # 0 \/ 0 >= 3 * 4

Range(f) == {f[i] : i \in DOMAIN f}

NonDegenerate(tri) == tri[1] # tri[2] /\ tri[2] # tri[3] /\ tri[1] # tri[3]

RECURSIVE KeepFaces(_)
KeepFaces(tris) ==
    IF tris = <<>> THEN <<>>
    ELSE IF NonDegenerate(Head(tris))
    THEN <<Head(tris)>> \o KeepFaces(Tail(tris))
    ELSE KeepFaces(Tail(tris))

\* meshopt::simplify (library): edge collapses. Each collapse moves a vertex
\* onto another one of the mesh; a triangle that loses a corner that way is
\* dropped. The decimator stops at the target or when no collapse stays within
\* target_error, so any of these results can come back.
DecimatorResults(indices, nverts, target_index_count, target_error) ==
    IF WellFormed(indices, nverts) /\ target_index_count <= Len(indices)
    THEN LET tris == Faces(indices)
             used == Range(indices)
         IN {[ok |-> TRUE,
              data |-> FlatMap(KeepFaces([t \in 1..Len(tris) |->
                                  [k \in 1..3 |-> f[tris[t][k]]]]))] :
                 f \in {g \in [used -> used] : \A v \in used : g[g[v]] = g[v]}}
    \* the C library asserts index_count % 3 == 0, index < vertex_count and
    \* target_index_count <= index_count: the call aborts, or (assertions
    \* compiled out) returns the buffer as it is
    ELSE {[ok |-> FALSE, data |-> indices], [ok |-> TRUE, data |-> indices]}

\* a simplification that hands the reduced indices to nobody: the mesh of the
\* asset keeps the index buffer it had
store_simplified_elsewhere(mesh, simplified_indices) == mesh

\* a simplification that extends the index buffer by the reduced indices
store_simplified_appended(mesh, simplified_indices) ==
    [mesh EXCEPT !.indices = IndicesU32(mesh.indices.data \o simplified_indices)]

\* a simplification that also compacts the positions to as many as the reduced
\* indices use, and leaves the indices and the normals as they are
store_simplified_compacted(mesh, simplified_indices) ==
    [mesh EXCEPT !.indices = IndicesU32(simplified_indices),
                 !.position.data =
                     SubSeq(@, 1, Cardinality({simplified_indices[i] :
                                                  i \in DOMAIN simplified_indices}))]

\* lines 128-131: `*indices = Indices::U32(simplified_indices.clone())` through
\* indices_mut(): the index buffer of self.mesh is overwritten, 32-bit whatever
\* it was, and nothing else of the mesh is touched
store_simplified(mesh, simplified_indices) ==
    [mesh EXCEPT !.indices = IndicesU32(simplified_indices)]

\* simplify_mesh with the index buffer taken out of the mesh and stored back as
\* 32-bit indices before the position attribute is looked at
simplify_mesh_indices_first(mesh, ratio, error_threshold) ==
    IF mesh.indices.kind = "None"
    THEN {[res |-> "ParseError", mesh |-> mesh, target |-> 0]}
    ELSE LET original_indices == [i \in 1..Len(mesh.indices.data) |-> mesh.indices.data[i]]
             stored == [mesh EXCEPT !.indices = IndicesU32(original_indices)]
             target_index_count == TargetIndexCount(Len(original_indices), ratio)
         IN IF mesh.position.kind # "Float32x3"
            THEN {[res |-> "ParseError", mesh |-> stored, target |-> 0]}
            ELSE {IF o.ok
                  THEN [res |-> "Ok",
                        mesh |-> [mesh EXCEPT !.indices = IndicesU32(o.data)],
                        target |-> target_index_count]
                  ELSE [res |-> "Panic", mesh |-> stored, target |-> target_index_count] :
                      o \in DecimatorResults(original_indices, Len(mesh.position.data),
                                             target_index_count, error_threshold)}

\* simplify_mesh that takes a decimation short of the target for a failure
simplify_mesh_target_enforced(mesh, ratio, error_threshold) ==
    IF mesh.position.kind # "Float32x3" \/ mesh.indices.kind = "None"
    THEN {[res |-> "ParseError", mesh |-> mesh, target |-> 0]}
    ELSE LET original_indices == [i \in 1..Len(mesh.indices.data) |-> mesh.indices.data[i]]
             target_index_count == TargetIndexCount(Len(original_indices), ratio)
         IN {IF ~o.ok
             THEN [res |-> "Panic", mesh |-> mesh, target |-> target_index_count]
             ELSE IF Len(o.data) > target_index_count
             THEN [res |-> "ParseError", mesh |-> mesh, target |-> target_index_count]
             ELSE [res |-> "Ok", mesh |-> store_simplified(mesh, o.data),
                   target |-> target_index_count] :
                 o \in DecimatorResults(original_indices, Len(mesh.position.data),
                                        target_index_count, error_threshold)}

\* lines 76-136: the outcomes, each the Result, the mesh as the call leaves it
\* and the target handed to the decimator
simplify_mesh_meshopt(mesh, ratio, error_threshold) ==
    IF mesh.position.kind = "None"
    THEN {[res |-> "ParseError", mesh |-> mesh, target |-> 0]}
    ELSE IF mesh.position.kind # "Float32x3"
    THEN {[res |-> "ParseError", mesh |-> mesh, target |-> 0]}
    ELSE IF mesh.indices.kind = "None"
    THEN {[res |-> "ParseError", mesh |-> mesh, target |-> 0]}
    ELSE LET positions == mesh.position.data
             \* U32: clone(); U16: each index widened `as u32`, the value kept
             original_indices == [i \in 1..Len(mesh.indices.data) |-> mesh.indices.data[i]]
             nfloats == 3 * Len(positions)
             target_index_count == TargetIndexCount(Len(original_indices), ratio)
         IN IF VertexAdapterFails(nfloats)
            THEN {[res |-> "ParseError", mesh |-> mesh, target |-> target_index_count]}
            ELSE {IF o.ok
                  THEN [res |-> "Ok",
                        mesh |-> store_simplified(mesh, o.data),
                        target |-> target_index_count]
                  ELSE [res |-> "Panic", mesh |-> mesh, target |-> target_index_count] :
                      o \in DecimatorResults(original_indices, Len(positions),
                                             target_index_count, error_threshold)}

\* lines 142-145: without feature "meshopt"
simplify_mesh_unavailable(mesh, ratio, error_threshold) ==
    {[res |-> "ParseError", mesh |-> mesh, target |-> 0]}

simplify_mesh(mesh, ratio, error_threshold, meshopt) ==
    IF meshopt
    THEN simplify_mesh_meshopt(mesh, ratio, error_threshold)
    ELSE simplify_mesh_unavailable(mesh, ratio, error_threshold)

(***************************************************************************)
(* The assets a caller holds. StepAsset owns its mesh: every asset has a   *)
(* storage of its own in the heap.                                         *)
(***************************************************************************)
\* a clone that shares the mesh storage of the original
StepAsset_clone_shared(handle, h) == [handle |-> handle, heap |-> h]

\* #[derive(Clone)]: Mesh::clone copies the attributes and the indices into a
\* new mesh; the clone is the asset stored there
StepAsset_clone(handle, h) ==
    [handle |-> Len(h) + 1, heap |-> Append(h, h[handle])]

\* meshes as assembly makes them: proper triangles over the vertices
ProperFaces(nv) ==
    {tri \in (0..(nv - 1)) \X (0..(nv - 1)) \X (0..(nv - 1)) :
        tri[1] < tri[2] /\ tri[2] < tri[3]}

AssembledMeshes ==
    UNION {{compute_normals(insert_indices(
                insert_attribute_position(MeshNew, [i \in 1..nv |-> AsF32(F32Exact + i)]),
                IndicesU32(FlatMap(tris)))) :
               tris \in SeqsUpTo(ProperFaces(nv), MaxTris)} : nv \in 0..MaxAssetVerts}

\* `pub mesh`: the caller can store any Mesh in an asset, so also one with
\* 16-bit or no indices, and one whose positions are missing or of another
\* format
AssetMeshes ==
    {[m EXCEPT !.position = IF pk = "None" THEN NoAttribute
                            ELSE [kind |-> pk, data |-> m.position.data],
               !.indices = IF ik = "None" THEN NoIndices
                           ELSE [kind |-> ik, data |-> m.indices.data]] :
        m \in AssembledMeshes,
        pk \in {"Float32x3", "Float32x2", "None"},
        ik \in {"U32", "U16", "None"}}

MeshOf(slot) == heap[assets[slot].handle]

Held(slot) == assets[slot].handle # 0

LoadVarsUnchanged == UNCHANGED <<build, fs, calls>>

\* simplify_mesh takes &mut self: it can be called on the caller's own clone,
\* not on the asset borrowed from the store
Mutable(slot) == slot = "simplified_asset"

\* let mut simplified_asset = step_asset.clone()
CloneAsset(src, dst) ==
    /\ src = "step_asset" /\ dst = "simplified_asset"
    /\ Held(src) /\ ~Held(dst)
    /\ LET c == StepAsset_clone(assets[src].handle, heap)
       IN /\ assets' = [assets EXCEPT ![dst] = [handle |-> c.handle, from |-> src]]
          /\ heap' = c.heap
    /\ last' = [NoOp EXCEPT !.op = "clone", !.slot = dst, !.res = "Ok",
                            !.before = MeshOf(src)]
    /\ LoadVarsUnchanged

\* asset.simplify_mesh(ratio, error_threshold)
SimplifyMesh(slot, ratio, error_threshold) ==
    /\ Held(slot) /\ Mutable(slot)
    /\ \E o \in simplify_mesh(MeshOf(slot), ratio, error_threshold, build.meshopt) :
          /\ heap' = [heap EXCEPT ![assets[slot].handle] = o.mesh]
          /\ last' = [op |-> "simplify_mesh", slot |-> slot, res |-> o.res,
                      before |-> MeshOf(slot), target |-> o.target,
                      ratio |-> ratio]
    /\ UNCHANGED assets
    /\ LoadVarsUnchanged

\* optimise_mesh(&mut asset.mesh), in a build that has it
OptimiseMesh(slot) ==
    /\ Held(slot) /\ Mutable(slot)
    /\ build.meshopt
    /\ \E o \in optimise_mesh(MeshOf(slot)) :
          /\ heap' = [heap EXCEPT ![assets[slot].handle] = o.mesh]
          /\ last' = [op |-> "optimise_mesh", slot |-> slot, res |-> o.res,
                      before |-> MeshOf(slot), target |-> 0, ratio |-> 0]
    /\ UNCHANGED assets
    /\ LoadVarsUnchanged

\* the backend plays no part in what is done with an asset: the default one
InitAsset ==
    /\ build \in {b \in Builds : ~b.opencascade}
    /\ fs = [p \in ScratchPaths |-> NoFile]
    /\ calls = [c \in Calls |-> IdleCall]
    /\ \E m \in AssetMeshes :
          /\ heap = <<m>>
          /\ assets = [s \in Slots |-> IF s = "step_asset"
                                        THEN [handle |-> 1, from |-> ""]
                                        ELSE NoAsset]
    /\ last = NoOp

NextAsset ==
    \/ \E src, dst \in Slots : CloneAsset(src, dst)
    \/ \E slot \in Slots, ratio \in Ratios, e \in Thresholds : SimplifyMesh(slot, ratio, e)
    \/ \E slot \in Slots : OptimiseMesh(slot)

SpecAsset == InitAsset /\ [][NextAsset]_vars

(***************************************************************************)
(* The whole pipeline of the example: a file is loaded, the asset store    *)
(* holds what load returned, check_step_loaded clones it and simplifies    *)
(* the clone. optimise_mesh is private: it runs inside load and nowhere    *)
(* else.                                                                   *)
(***************************************************************************)
\* the StepAsset load returned is in Assets<StepAsset>:
\* step_assets.get(&step_model.handle) is Some(step_asset)
AssetLoaded(c) ==
    /\ calls[c].pc = "done"
    /\ calls[c].result.kind = "Ok"
    /\ ~Held("step_asset")
    /\ heap' = Append(heap, calls[c].result.mesh)
    /\ assets' = [assets EXCEPT !["step_asset"] = [handle |-> Len(heap) + 1, from |-> ""]]
    /\ last' = [NoOp EXCEPT !.op = "loaded", !.slot = "step_asset", !.res = "Ok"]
    /\ LoadVarsUnchanged

NextPipeline ==
    \/ LoadStep(MainCall, Buffers, RawGeoms)
    \/ AssetLoaded(MainCall)
    \/ \E src, dst \in Slots : CloneAsset(src, dst)
    \/ \E slot \in Slots, ratio \in Ratios, e \in Thresholds : SimplifyMesh(slot, ratio, e)

SpecPipeline == InitLoad /\ [][NextPipeline]_vars

(***************************************************************************)
(* The file extensions of the loader. An extension is the sequence of its  *)
(* characters; the characters that matter are the letters of "step", in    *)
(* either case.                                                            *)
(***************************************************************************)
\* lines 157-159: `&["step", "stp", "STEP", "STP"]`
extensions ==
    {<<"s", "t", "e", "p">>, <<"s", "t", "p">>,
     <<"S", "T", "E", "P">>, <<"S", "T", "P">>}

\* char::to_ascii_uppercase on a lower-case letter
to_ascii_uppercase(ch) ==
    CASE ch = "s" -> "S"
      [] ch = "t" -> "T"
      [] ch = "e" -> "E"
      [] ch = "p" -> "P"
      [] OTHER -> ch

\* the spellings of a lower-case word with every letter in either case
CaseVariants(word) ==
    {w \in [1..Len(word) -> {"s", "t", "e", "p", "S", "T", "E", "P"}] :
        \A i \in 1..Len(word) : w[i] \in {word[i], to_ascii_uppercase(word[i])}}

(***************************************************************************)
(* Claims about the triangulation calls                                    *)
(***************************************************************************)
InOcct(c) == calls[c].temp_path # ""

Done(c) == calls[c].pc = "done"

\* C1: under Backend A any two calls, also two in progress at the same time,
\* use different scratch paths (no call uses a fixed file name).
C1_ScratchPathFreshPerCall ==
    \A c, d \in Calls :
        (c # d /\ InOcct(c) /\ InOcct(d)) => calls[c].temp_path # calls[d].temp_path

\* what triangulate_step_file can return for the bytes when no other call runs
ResultsAlone(bytes, G) ==
    IF build.opencascade
    THEN {Err("IoError")} \cup
         (IF IsValidStep(bytes)
          THEN UNION {occt_mesh_results(g, build.meshopt) : g \in G}
          ELSE {Err("OcctError")})
    ELSE UNION {IF o.panic THEN {Panicked}
                ELSE foxtrot_mesh_results(o.mesh, build.meshopt) :
                    o \in foxtrot_triangulate(bytes, G)}

\* C2: under every interleaving the backend of a call reads exactly the bytes
\* that call was given, and the call returns a result it can return alone.
C2_CallsSelfContained ==
    \A c \in Calls :
        /\ calls[c].kernel_input.read => calls[c].kernel_input.data = calls[c].step_data
        /\ (Done(c) /\ calls[c].triangulated) =>
               calls[c].result \in ResultsAlone(calls[c].step_data, UnitTriangle)

\* C3: when triangulate_with_occt has returned (Ok, IoError or a kernel
\* error), the scratch file of the call no longer exists.
C3_ScratchFileDeletedOnReturn ==
    \A c \in Calls :
        (Done(c) /\ InOcct(c)) => ~fs[calls[c].temp_path].exists

\* C4: for a buffer that is not valid STEP content triangulate_step_file
\* returns Err(ParseError) or a backend error, never a panic (an IoError of
\* the scratch write is let through here: it is not what the claim is about).
C4_InvalidContentIsTypedError ==
    \A c \in Calls :
        (Done(c) /\ calls[c].triangulated /\ ~IsValidStep(calls[c].step_data)) =>
            calls[c].result.kind \in {"ParseError", "FoxtrotError", "OcctError", "IoError"}

\* C5: triangulating an empty buffer returns Err, never Ok (with a mesh of
\* zero triangles) and never a panic.
C5_EmptyBufferIsErr ==
    \A c \in Calls :
        (Done(c) /\ calls[c].triangulated /\ calls[c].step_data = <<>>) =>
            calls[c].result.kind \in ErrKinds

\* the structural expectations on raw geometry
RawIsStructurallyValid(raw) == WellFormed(raw.indices, Len(raw.verts))

\* C6: when the backend's index array has a length not divisible by 3 or
\* holds an index >= the number of positions, triangulation returns
\* Err(ParseError).
C6_AssemblyRejectsInvalidGeometry ==
    \A c \in Calls :
        (Done(c) /\ calls[c].raw.set /\ ~RawIsStructurallyValid(calls[c].raw)) =>
            calls[c].result.kind = "ParseError"

MeshInvariants(mesh) ==
    /\ Len(mesh.indices.data) % 3 = 0
    /\ \A i \in 1..Len(mesh.indices.data) :
          mesh.indices.data[i] < Len(mesh.position.data)
    /\ Len(mesh.normal.data) = Len(mesh.position.data)

\* C7: every mesh triangulate_step_file returns with Ok has an index count
\* divisible by 3, every index below the number of positions, and as many
\* normals as positions.
C7_OkMeshKeepsInvariants ==
    \A c \in Calls :
        (Done(c) /\ calls[c].result.kind = "Ok") => MeshInvariants(calls[c].result.mesh)

(***************************************************************************)
(* Claims about the assets and their transforms                            *)
(***************************************************************************)
\* C8: without the simplification capability simplify_mesh returns an error,
\* for every ratio and error_threshold, of a kind other than ParseError.
C8_UnavailableIsNotParseError ==
    (last.op = "simplify_mesh" /\ ~build.meshopt) =>
        last.res \in (ErrKinds \ {"ParseError"})

\* C9: whenever simplify_mesh or optimise_mesh returns Err, the mesh it was
\* called on is as it was before the call.
C9_ErrLeavesMeshUnchanged ==
    (last.op \in {"simplify_mesh", "optimise_mesh"} /\ last.res \in ErrKinds) =>
        MeshOf(last.slot) = last.before

\* simplify_mesh of a build with meshopt has failed on a mesh that has 16-bit
\* indices it could have rewritten
C9_Witness ==
    /\ build.meshopt
    /\ last.op = "simplify_mesh"
    /\ last.res = "ParseError"
    /\ last.before.indices.kind = "U16"
    /\ Len(last.before.indices.data) > 0

\* C10: a simplify_mesh call on a clone, successful or failing, leaves the
\* mesh of the asset it was cloned from (and of every other asset) as it was.
C10_CloneIsIndependent ==
    [][\A s \in Slots :
          (last'.op = "simplify_mesh" /\ Held(s) /\ s # last'.slot) =>
              heap'[assets'[s].handle] = heap[assets[s].handle]]_vars

\* a clone has been simplified to fewer indices while the asset it was cloned
\* from still holds the mesh the clone started with
C10_Witness ==
    /\ last.op = "simplify_mesh"
    /\ last.res = "Ok"
    /\ last.slot # ""
    /\ assets[last.slot].from # ""
    /\ Len(MeshOf(last.slot).indices.data) < Len(last.before.indices.data)
    /\ MeshOf(assets[last.slot].from) = last.before

\* C11: a successful simplify_mesh leaves the mesh it was called on as it was
\* (the reduced mesh is a new value; the index buffer is not overwritten).
C11_SimplifyLeavesCallerMeshUnmodified ==
    (last.op = "simplify_mesh" /\ last.res = "Ok") => MeshOf(last.slot) = last.before

\* C11 as the code has it: a successful simplify_mesh works in place. The
\* asset it was called on keeps its storage, its positions and its normals,
\* and its index buffer is now the decimator's result, as 32-bit indices.
C11_SimplifyOverwritesInPlace ==
    (last.op = "simplify_mesh" /\ last.res = "Ok") =>
        /\ MeshOf(last.slot).position = last.before.position
        /\ MeshOf(last.slot).normal = last.before.normal
        /\ MeshOf(last.slot).indices.kind = "U32"
        /\ \E o \in DecimatorResults(last.before.indices.data,
                                      Len(last.before.position.data), last.target, 0) :
              MeshOf(last.slot).indices.data = o.data
        /\ Len(heap) = 2

\* a mesh with 16-bit indices has been simplified to fewer indices, stored in
\* the asset the call was made on
C11_Witness ==
    /\ last.op = "simplify_mesh"
    /\ last.res = "Ok"
    /\ last.before.indices.kind = "U16"
    /\ Len(last.before.indices.data) > 0
    /\ MeshOf(last.slot).indices = IndicesU32(<<>>)

\* the calls C12 is about: simplify_mesh got as far as the decimator, with a
\* ratio in (0, 1]
ReachedDecimator ==
    /\ last.op = "simplify_mesh"
    /\ build.meshopt
    /\ last.before.position.kind = "Float32x3"
    /\ last.before.indices.kind # "None"
    /\ last.ratio \in 1..4

\* C12: for every index count n and every ratio in (0, 1] the target index
\* count handed to the decimator is round(n * ratio), the nearest integer:
\* with the ratio in quarters, |4 * target - n * quarters| <= 2, a half up.
C12_TargetIsRoundedProduct ==
    ReachedDecimator =>
        LET n == Len(last.before.indices.data)
        IN /\ 4 * last.target - 2 <= n * last.ratio
           /\ n * last.ratio < 4 * last.target + 2

\* C12 as the code has it: the target is n * ratio with the fraction dropped,
\* the largest integer that is at most n * ratio.
C12_TargetIsTruncatedProduct ==
    ReachedDecimator =>
        LET n == Len(last.before.indices.data)
        IN /\ 4 * last.target <= n * last.ratio
           /\ n * last.ratio < 4 * (last.target + 1)

\* 3 indices at ratio 0.5: the product 1.5 went to the decimator as 1
C12_Witness ==
    /\ ReachedDecimator
    /\ Len(last.before.indices.data) = 3
    /\ last.ratio = 2
    /\ last.target = 1

IndexCount(mesh) == Len(mesh.indices.data)

\* C13: simplify_mesh never increases the triangle count: for every mesh,
\* every ratio the routine takes (also one above 1) and every error_threshold,
\* the index count after a successful call is at most the one before it.
C13_SimplifyNeverAddsIndices ==
    (last.op = "simplify_mesh" /\ last.res = "Ok") =>
        IndexCount(MeshOf(last.slot)) <= IndexCount(last.before)

\* a call with a ratio above 1 on a mesh with a triangle has returned Ok and
\* the mesh has the index count it had
C13_Witness ==
    /\ last.op = "simplify_mesh"
    /\ last.res = "Ok"
    /\ last.ratio > 4
    /\ IndexCount(last.before) > 0
    /\ IndexCount(MeshOf(last.slot)) = IndexCount(last.before)

\* the mesh has what simplify_mesh looks for
HasPositionsAndIndices(mesh) ==
    mesh.position.kind = "Float32x3" /\ mesh.indices.kind # "None"

\* C14: in a build with the decimator, for every mesh with Float32x3
\* positions and an index buffer and every ratio up to 1, simplify_mesh
\* returns Ok, whether or not the result is down to the target; it returns
\* ParseError only when the positions are missing or not Float32x3 or the
\* mesh has no indices.
C14_UndershootIsOk ==
    (last.op = "simplify_mesh" /\ build.meshopt) =>
        /\ (HasPositionsAndIndices(last.before) /\ last.ratio <= 4) => last.res = "Ok"
        /\ last.res = "ParseError" => ~HasPositionsAndIndices(last.before)

\* the decimator has stopped above the target and the call has returned Ok
C14_Witness ==
    /\ last.op = "simplify_mesh"
    /\ build.meshopt
    /\ last.ratio \in 1..4
    /\ last.res = "Ok"
    /\ IndexCount(MeshOf(last.slot)) > last.target

\* a triangle as an unordered triple: how often each vertex is a corner of it
TriKey(tri) == [v \in Range(tri) |-> Cardinality({k \in 1..3 : tri[k] = v})]

\* the multiset of the triangles of an index buffer
TriangleBag(indices) ==
    LET tris == Faces(indices)
        keys == {TriKey(tris[t]) : t \in DOMAIN tris}
    IN [key \in keys |-> Cardinality({t \in DOMAIN tris : TriKey(tris[t]) = key})]

\* C15: for every valid mesh optimise_mesh only reorders the index buffer: the
\* multiset of triangles (unordered triples), the set of referenced vertices
\* and the triangle count are the same before and after, and positions and
\* normals are unchanged.
C15_OptimiseOnlyReorders ==
    (last.op = "optimise_mesh" /\ last.res = "Ok") =>
        LET old == last.before.indices.data
            new == MeshOf(last.slot).indices.data
        IN /\ TriangleBag(new) = TriangleBag(old)
           /\ Range(new) = Range(old)
           /\ Len(new) = Len(old)
           /\ MeshOf(last.slot).position = last.before.position
           /\ MeshOf(last.slot).normal = last.before.normal

\* the optimiser has put the indices of a mesh with normals in another order
C15_Witness ==
    /\ last.op = "optimise_mesh"
    /\ last.res = "Ok"
    /\ last.before.normal.kind # "None"
    /\ Len(last.before.normal.data) > 0
    /\ MeshOf(last.slot).indices.data # last.before.indices.data

\* C19: optimise_mesh is total on assembled meshes: for every mesh with
\* Float32x3 positions and an index buffer whose indices are whole triangles
\* over its vertices, also one with no vertices or no indices, it returns Ok
\* and never an error.
C19_OptimiseIsTotal ==
    (/\ last.op = "optimise_mesh"
     /\ HasPositionsAndIndices(last.before)
     /\ WellFormed(last.before.indices.data, Len(last.before.position.data))) =>
        last.res = "Ok"

\* optimise_mesh has returned Ok for a mesh that has positions and an index
\* buffer with no index in it
C19_Witness ==
    /\ last.op = "optimise_mesh"
    /\ last.res = "Ok"
    /\ HasPositionsAndIndices(last.before)
    /\ Len(last.before.position.data) > 0
    /\ IndexCount(last.before) = 0

\* C16: the loader recognizes "step" and "stp" case-insensitively: every
\* upper/lower-case spelling of the two (such as "Step" or "sTp") is among
\* the extensions the loader accepts, whenever the loader is in use.
C16_ExtensionsCaseInsensitive ==
    \A c \in Calls :
        calls[c].pc # "idle" =>
            \A word \in {<<"s", "t", "e", "p">>, <<"s", "t", "p">>} :
                \A w \in CaseVariants(word) : w \in extensions

\* the stages of load in the order of the code
LoadStages == <<"read_to_end", "triangulate_step_file">>

\* C17: a load call runs each stage at most once and stops at the first
\* failure: every stage but the last one entered has returned Ok; a failed read
\* is returned as IoError with triangulation never entered; a failed
\* triangulation is returned as the error it was, with no StepAsset; and a
\* StepAsset is returned only when both stages have returned Ok.
C17_StagesOnceAndFailFast ==
    \A c \in Calls :
        LET log == calls[c].stages
        IN /\ Len(log) <= Len(LoadStages)
           /\ \A i \in 1..Len(log) :
                 /\ log[i].stage = LoadStages[i]
                 /\ i < Len(log) => log[i].res = "Ok"
           /\ Done(c) =>
                 /\ log # <<>>
                 /\ log[1].res # "Ok" =>
                       /\ calls[c].result = Err("IoError")
                       /\ Len(log) = 1
                       /\ ~calls[c].triangulated
                 /\ log[Len(log)].res \in ErrKinds =>
                       calls[c].result = Err(log[Len(log)].res)
                 /\ calls[c].result.kind = "Ok" =>
                       /\ Len(log) = Len(LoadStages)
                       /\ \A i \in 1..Len(log) : log[i].res = "Ok"

\* a call whose triangulation has failed has returned that error and no mesh
C17_Witness ==
    \E c \in Calls :
        /\ Done(c)
        /\ Len(calls[c].stages) = 2
        /\ calls[c].stages[2].res = "OcctError"
        /\ calls[c].result = Err("OcctError")

\* C18: in a build without the cache optimisation the pipeline reports its
\* absence as an error: a triangulation that has assembled its mesh, and so
\* has come to the optimisation step, does not skip the step and return Ok.
C18_MissingOptimiserIsReported ==
    \A c \in Calls :
        (Done(c) /\ ~build.meshopt /\ calls[c].raw.set) =>
            calls[c].result.kind # "Ok"

\* line 287: the mesh is one the cache optimiser is run on
CacheOptimiserRuns(mesh) ==
    Len(mesh.indices.data) # 0 /\ Len(mesh.position.data) # 0

\* the mesh load returned went through the cache optimiser
OptimisedInLoad ==
    /\ build.meshopt
    /\ Held("step_asset")
    /\ CacheOptimiserRuns(MeshOf("step_asset"))

\* C20: when both transforms are applied to a mesh, simplification comes
\* first: the finished mesh never holds simplified indices that were produced
\* after the last cache optimisation (here: after the one of load, the only
\* one there is).
C20_SimplifyBeforeOptimise ==
    OptimisedInLoad => ~(last.op = "simplify_mesh" /\ last.res = "Ok")

\* the mesh the asset store holds is as assembly makes a mesh: Float32x3
\* positions, an index buffer, and the structural invariants
StartedAssembled ==
    /\ Held("step_asset")
    /\ HasPositionsAndIndices(MeshOf("step_asset"))
    /\ MeshInvariants(MeshOf("step_asset"))

\* C21: across any sequence of successful simplify_mesh and optimise_mesh
\* calls on an assembled mesh the structural invariants are kept: after each
\* call the index count is divisible by 3, every index is below the number of
\* positions and there are as many normals as positions; positions and
\* normals are as they were, and simplify_mesh leaves 32-bit indices.
C21_TransformsKeepInvariants ==
    (StartedAssembled /\ Held("simplified_asset")) =>
        /\ MeshInvariants(MeshOf("simplified_asset"))
        /\ MeshOf("simplified_asset").position = MeshOf("step_asset").position
        /\ MeshOf("simplified_asset").normal = MeshOf("step_asset").normal
        /\ (last.op \in {"simplify_mesh", "optimise_mesh"} /\ last.res = "Ok") =>
              /\ MeshInvariants(last.before)
              /\ last.op = "simplify_mesh" =>
                    MeshOf(last.slot).indices.kind = "U32"

\* a second successful call in a row: simplify_mesh has returned Ok, with its
\* triangle kept, on a mesh whose indices the optimiser had put in another
\* order than the assembled mesh has them
C21_Witness ==
    /\ StartedAssembled
    /\ last.op = "simplify_mesh"
    /\ last.res = "Ok"
    /\ IndexCount(last.before) > 0
    /\ last.before.indices.data # MeshOf("step_asset").indices.data
    /\ IndexCount(MeshOf(last.slot)) = IndexCount(last.before)

====
